---- MODULE Spec2Model ----
\* Reference repathing utility (refrepath/core.py): get_references,
\* repath_reference and open_and_repath_references, run against a model of
\* the host scene API (maya.cmds) and of the file system.
\*
\* Strings are sequences of one-character strings, so that regex matching,
\* str.replace and pathlib normalisation are computed character by character.
\* Node names are sequences of name fragments.
EXTENDS Integers, Sequences, FiniteSets, TLC

\* ---------------------------------------------------------------- bounds
MaxRefs == 2        \* reference nodes in the scene file
MaxDirect == 1      \* direct calls of repath_reference after the batch

\* Paths are written with the separator "/" and one other character, "a".
AnyChar == "ANY"                        \* the regex atom "."

\* Paths a reference of the scene file records: none, the root, a relative
\* name, a name in which the same text occurs twice, an absolute path.
ScenePaths == { <<>>, <<"/">>, <<"a">>, <<"a", "a">>, <<"/", "a">> }

\* The caller's search patterns: one literal character or one "."
Patterns == { <<"/">>, <<"a">>, <<AnyChar>> }

\* The strings the caller builds the replace Path from
ReplaceStrings == { <<"/">>, <<"a">>, <<"/", "/">>, <<"a", "/">> }

\* ------------------------------------------------------ pathlib.Path
\* str(Path(s)) on a POSIX build: exactly two leading slashes are kept,
\* any other run of slashes collapses, "." components and trailing slashes
\* are dropped, the empty path is ".".
RECURSIVE SplitParts(_, _)
SplitParts(s, cur) ==
    IF s = <<>> THEN (IF cur = <<>> THEN <<>> ELSE <<cur>>)
    ELSE IF Head(s) = "/"
         THEN (IF cur = <<>> THEN <<>> ELSE <<cur>>) \o SplitParts(Tail(s), <<>>)
         ELSE SplitParts(Tail(s), Append(cur, Head(s)))

RECURSIVE JoinParts(_)
JoinParts(parts) ==
    IF parts = <<>> THEN <<>>
    ELSE IF Len(parts) = 1 THEN parts[1]
    ELSE parts[1] \o <<"/">> \o JoinParts(Tail(parts))

RECURSIVE LeadingSlashes(_)
LeadingSlashes(s) ==
    IF s # <<>> /\ Head(s) = "/" THEN 1 + LeadingSlashes(Tail(s)) ELSE 0

PathRoot(s) ==
    LET n == LeadingSlashes(s)
    IN IF n = 0 THEN <<>> ELSE IF n = 2 THEN <<"/", "/">> ELSE <<"/">>

Path(s) ==
    LET parts == SelectSeq(SplitParts(s, <<>>), LAMBDA c : c # <<".">>)
        body == PathRoot(s) \o JoinParts(parts)
    IN IF body = <<>> THEN <<".">> ELSE body

\* ------------------------------------------------------ re / str
\* re.compile(search).match(s): the pattern is tried at the start of s only.
\* Returns <<matched?, group(0)>>.
Match(search, s) ==
    IF /\ Len(s) >= Len(search)
       /\ \A i \in 1..Len(search) : search[i] = AnyChar \/ search[i] = s[i]
    THEN <<TRUE, SubSeq(s, 1, Len(search))>>
    ELSE <<FALSE, <<>>>>

\* str.replace(old, new): every non-overlapping occurrence, left to right;
\* an empty old inserts new before every character and at the end.
RECURSIVE ReplaceNonEmpty(_, _, _)
ReplaceNonEmpty(s, old, new) ==
    IF Len(s) < Len(old) THEN s
    ELSE IF SubSeq(s, 1, Len(old)) = old
         THEN new \o ReplaceNonEmpty(SubSeq(s, Len(old) + 1, Len(s)), old, new)
         ELSE <<Head(s)>> \o ReplaceNonEmpty(Tail(s), old, new)

RECURSIVE ReplaceEmpty(_, _)
ReplaceEmpty(s, new) ==
    IF s = <<>> THEN new ELSE new \o <<Head(s)>> \o ReplaceEmpty(Tail(s), new)

StrReplace(s, old, new) ==
    IF old = <<>> THEN ReplaceEmpty(s, new) ELSE ReplaceNonEmpty(s, old, new)

\* ------------------------------------------------------ host scene
\* Node names as the host lists them.  The host's own pseudo-nodes are the
\* shared/default reference node and the unknown-reference placeholder,
\* possibly inside a namespace; every other reference node is a genuine one,
\* whatever its name contains.
SharedName == "sharedReferenceNode"
UnknownName == "_UNKNOWN_REF_NODE_"

BatchNames == { <<"propRN">>, <<"ns:", "propRN">>, <<SharedName>> }
EnumNames == BatchNames \cup
             { <<"ns:", UnknownName>>, <<SharedName, "_propRN">>, <<UnknownName, "RN">> }

IsPseudoNode(name) == name[Len(name)] \in {SharedName, UnknownName}

NodesOver(names, paths) ==
    {[name |-> n, path |-> p] : n \in names, p \in paths}

ScenesOver(names, paths) ==
    {s \in UNION {[1..k -> NodesOver(names, paths)] : k \in 0..MaxRefs} :
        /\ \A i, j \in 1..Len(s) : i # j => s[i].name # s[j].name
        /\ \A i \in 1..Len(s) : IsPseudoNode(s[i].name) => s[i].path = <<>>}

\* cmds.ls(type="reference", long=True)
ListReferences(sc) == [i \in 1..Len(sc) |-> sc[i].name]

NodePath(sc, name) == sc[CHOOSE i \in 1..Len(sc) : sc[i].name = name].path

\* cmds.referenceQuery(node, filename=True, withoutCopyNumber=True): a node
\* with no file either yields an empty string or makes the host raise.
QueryResults(sc, name) ==
    IF NodePath(sc, name) = <<>>
    THEN {[raised |-> TRUE, path |-> <<>>], [raised |-> FALSE, path |-> <<>>]}
    ELSE {[raised |-> FALSE, path |-> NodePath(sc, name)]}

\* cmds.file(path, loadReference=node): the node now records that path.
SetNodePath(sc, name, p) ==
    [i \in 1..Len(sc) |-> IF sc[i].name = name THEN [sc[i] EXCEPT !.path = p] ELSE sc[i]]

\* ------------------------------------------------------ core.py
Contains(needle, ref_name) == \E i \in 1..Len(ref_name) : ref_name[i] = needle

is_ref_valid(ref_name) ==
    /\ ~Contains(SharedName, ref_name)
    /\ ~Contains(UnknownName, ref_name)

get_references(listing) == SelectSeq(listing, is_ref_valid)

RepathedReference(node_name, previous_path, new_path) ==
    [node_name |-> node_name, previous_path |-> previous_path, new_path |-> new_path]

\* was_updated that always answers "updated"
was_updated_Always(r) == TRUE

was_updated(r) == ~(r.previous_path = r.new_path)

Outcome(node_name, kind, err, prev, new, probed, reload, reload_path) ==
    [node_name |-> node_name, kind |-> kind, err |-> err,
     previous_path |-> prev, new_path |-> new, probed |-> probed,
     reload |-> reload, reload_path |-> reload_path]

\* lines 73-83: <<matched?, new_path>>
Substitute(current_path, srch, repl) ==
    LET actual_search == Match(srch, current_path)
    IN IF ~actual_search[1] THEN <<FALSE, <<>>>>
       ELSE <<TRUE, Path(StrReplace(current_path, actual_search[2], repl))>>

\* the host's reload error is re-raised
ReloadEscapes_Propagate(raised) == raised

\* lines 103-106: the reload is wrapped in try/except Exception; TRUE when
\* the host's error leaves repath_reference.
ReloadEscapes(raised) == FALSE

\* the existence check is skipped
Commit_NoExistsCheck(node_name, current_path, new_path, ex, rl) ==
    IF ~was_updated(RepathedReference(node_name, current_path, new_path))
    THEN Outcome(node_name, "none", "none", current_path, new_path, TRUE, FALSE, <<>>)
    ELSE Outcome(node_name, "result", "none", current_path, new_path, TRUE, TRUE, new_path)

\* the reload is issued before the existence check
Commit_ReloadFirst(node_name, current_path, new_path, ex, rl) ==
    IF ~ex
    THEN Outcome(node_name, "raised", "notfound", current_path, new_path, TRUE,
                 was_updated(RepathedReference(node_name, current_path, new_path)), new_path)
    ELSE IF ~was_updated(RepathedReference(node_name, current_path, new_path))
    THEN Outcome(node_name, "none", "none", current_path, new_path, TRUE, FALSE, <<>>)
    ELSE Outcome(node_name, "result", "none", current_path, new_path, TRUE, TRUE, new_path)

\* the host is handed the previous path instead of the new one
Commit_ReloadOld(node_name, current_path, new_path, ex, rl) ==
    IF ~ex
    THEN Outcome(node_name, "raised", "notfound", current_path, new_path, TRUE, FALSE, <<>>)
    ELSE IF ~was_updated(RepathedReference(node_name, current_path, new_path))
    THEN Outcome(node_name, "none", "none", current_path, new_path, TRUE, FALSE, <<>>)
    ELSE Outcome(node_name, "result", "none", current_path, new_path, TRUE, TRUE, current_path)

\* lines 85-108, given whether new_path exists on disk (ex) and whether the
\* host raises on the reload (rl).  "reload" tells whether the reload call is
\* issued and "reload_path" the path handed to the host.
Commit(node_name, current_path, new_path, ex, rl) ==
    IF ~ex
    THEN Outcome(node_name, "raised", "notfound", current_path, new_path, TRUE, FALSE, <<>>)
    ELSE IF ~was_updated(RepathedReference(node_name, current_path, new_path))
    THEN Outcome(node_name, "none", "none", current_path, new_path, TRUE, FALSE, <<>>)
    ELSE IF ReloadEscapes(rl)
    THEN Outcome(node_name, "raised", "reload", current_path, new_path, TRUE, TRUE, new_path)
    ELSE Outcome(node_name, "result", "none", current_path, new_path, TRUE, TRUE, new_path)

\* repath_reference, given what the host answers to the path query (q).
repath_reference(node_name, srch, repl, q, ex, rl) ==
    IF q.raised
    THEN Outcome(node_name, "raised", "query", <<>>, <<>>, FALSE, FALSE, <<>>)
    ELSE IF q.path = <<>>
    THEN Outcome(node_name, "raised", "nopath", <<>>, <<>>, FALSE, FALSE, <<>>)
    ELSE
      LET current_path == Path(q.path)
          sub == Substitute(current_path, srch, repl)
      IN IF ~sub[1]
         THEN Outcome(node_name, "raised", "mismatch", current_path, <<>>, FALSE, FALSE, <<>>)
         ELSE Commit(node_name, current_path, sub[2], ex, rl)

\* open_and_repath_references, lines 129-139: the open is wrapped in
\* try/except Exception; TRUE when the error leaves the function.
OpenEscapes(raised) == FALSE

\* the per-reference call is not wrapped in try/except
TryRepath_NoCatch(o) ==
    [escaped |-> o.kind = "raised",
     value |-> IF o.kind = "result"
               THEN <<RepathedReference(o.node_name, o.previous_path, o.new_path)>>
               ELSE <<>>]

\* lines 153-161: the value bound to repathed_reference by one iteration
\* (<<>> is None) and whether the exception leaves the function.
TryRepath(o) ==
    [escaped |-> FALSE,
     value |-> IF o.kind = "result"
               THEN <<RepathedReference(o.node_name, o.previous_path, o.new_path)>>
               ELSE <<>>]

\* insert(0, ...) instead of append
Collect_Prepend(list, value) == IF value # <<>> THEN value \o list ELSE list

\* lines 163-164
Collect(list, value) == IF value # <<>> THEN list \o value ELSE list

\* the loop does not advance
NextIndex_Stay(i) == i

\* enumerate(): the next loop position
NextIndex(i) == i + 1

\* ------------------------------------------------------ state
VARIABLES
    fileRefs,                \* reference nodes stored in the scene file
    scene,                   \* reference nodes of the scene loaded in the host
    search, replace,         \* the caller's rule
    present, absent,         \* paths found / not found on disk so far
    pc,                      \* position in open_and_repath_references
    scene_reference_list,
    index,
    repathed_reference_list,
    ret,                     \* what open_and_repath_references handed back
    opens,                   \* scene open calls received by the host (raised?)
    reloads,                 \* reload calls received by the host
    calls,                   \* outcomes of the repath_reference calls
    direct                   \* direct calls of repath_reference made

vars == <<fileRefs, scene, search, replace, present, absent, pc,
          scene_reference_list, index, repathed_reference_list, ret,
          opens, reloads, calls, direct>>

Pending == [kind |-> "pending", value |-> <<>>]

InitWith(scenes) ==
    /\ fileRefs \in scenes
    /\ scene = <<>>
    /\ search \in Patterns
    /\ replace \in {Path(s) : s \in ReplaceStrings}
    /\ present = {}
    /\ absent = {}
    /\ pc = "call"
    /\ scene_reference_list = <<>>
    /\ index = 0
    /\ repathed_reference_list = <<>>
    /\ ret = Pending
    /\ opens = <<>>
    /\ reloads = <<>>
    /\ calls = <<>>
    /\ direct = 0

Init == InitWith(ScenesOver(BatchNames, ScenePaths))

\* lines 128-139: cmds.file(open=True, force=True, loadReferenceDepth="none").
\* On success the host holds the file's references; when the host raises,
\* the scene is either left as it was or loaded all the same.
OpenFile ==
    /\ pc = "call"
    /\ \E raised \in BOOLEAN :
         /\ scene' \in (IF raised THEN {scene, fileRefs} ELSE {fileRefs})
         /\ pc' = IF OpenEscapes(raised) THEN "escaped" ELSE "opened"
         /\ opens' = Append(opens, raised)
    /\ UNCHANGED <<fileRefs, search, replace, present, absent,
                   scene_reference_list, index, repathed_reference_list,
                   ret, reloads, calls, direct>>

\* lines 141-146
Enumerate ==
    /\ pc = "opened"
    /\ scene_reference_list' = get_references(ListReferences(scene))
    /\ IF scene_reference_list' = <<>>
       THEN /\ pc' = "done"
            /\ ret' = [kind |-> "list", value |-> <<>>]
            /\ UNCHANGED index
       ELSE /\ pc' = "loop"
            /\ index' = 1
            /\ UNCHANGED ret
    /\ repathed_reference_list' = <<>>
    /\ UNCHANGED <<fileRefs, scene, search, replace, present, absent,
                   opens, reloads, calls, direct>>

\* One call of repath_reference on node_name, with its effects on the host
\* and what it learns from the disk; the outcome is appended to calls.
CallRepath(node_name, via) ==
    \E q \in QueryResults(scene, node_name), ex \in BOOLEAN,
       rl \in BOOLEAN, applied \in BOOLEAN :
       LET o == repath_reference(node_name, search, replace, q, ex, rl)
       IN /\ IF o.probed
             THEN /\ o.new_path \in present => ex
                  /\ o.new_path \in absent => ~ex
                  /\ present' = IF ex THEN present \cup {o.new_path} ELSE present
                  /\ absent' = IF ex THEN absent ELSE absent \cup {o.new_path}
             ELSE /\ ~ex
                  /\ UNCHANGED <<present, absent>>
          /\ IF o.reload
             THEN /\ ~rl => applied
                  /\ reloads' = Append(reloads, [node |-> node_name, path |-> o.reload_path])
                  /\ scene' = IF applied THEN SetNodePath(scene, node_name, o.reload_path)
                              ELSE scene
             ELSE /\ ~rl /\ applied
                  /\ UNCHANGED <<reloads, scene>>
          /\ calls' = Append(calls, o @@
                                    [via |-> via, raisedReload |-> rl,
                                     applied |-> o.reload /\ applied])

\* lines 148-164: one iteration of the loop
LoopStep ==
    /\ pc = "loop"
    /\ index <= Len(scene_reference_list)
    /\ CallRepath(scene_reference_list[index], "batch")
    /\ LET t == TryRepath(calls'[Len(calls')])
       IN IF t.escaped
          THEN /\ pc' = "escaped"
               /\ UNCHANGED <<repathed_reference_list, index>>
          ELSE /\ repathed_reference_list' = Collect(repathed_reference_list, t.value)
               /\ index' = NextIndex(index)
               /\ UNCHANGED pc
    /\ UNCHANGED <<fileRefs, search, replace, scene_reference_list, ret,
                   opens, direct>>

\* lines 166-167
Return ==
    /\ pc = "loop"
    /\ index > Len(scene_reference_list)
    /\ pc' = "done"
    /\ ret' = [kind |-> "list", value |-> repathed_reference_list]
    /\ UNCHANGED <<fileRefs, scene, search, replace, present, absent,
                   scene_reference_list, index, repathed_reference_list,
                   opens, reloads, calls, direct>>

\* The caller runs repath_reference again, on its own, on a node of the
\* loaded scene, with the same rule.
DirectRepath ==
    /\ pc = "done"
    /\ direct < MaxDirect
    /\ \E i \in 1..Len(scene) :
         /\ is_ref_valid(scene[i].name)
         /\ CallRepath(scene[i].name, "direct")
    /\ direct' = direct + 1
    /\ UNCHANGED <<fileRefs, search, replace, pc, scene_reference_list, index,
                   repathed_reference_list, ret, opens>>

Next == OpenFile \/ Enumerate \/ LoopStep \/ Return \/ DirectRepath

Spec == Init /\ [][Next]_vars

\* get_references alone, over every kind of node name
InitEnum == InitWith(ScenesOver(EnumNames, {<<>>, <<"a">>}))
SpecEnum == InitEnum /\ [][Next]_vars

\* ------------------------------------------------------ properties
BatchCalls == SelectSeq(calls, LAMBDA c : c.via = "batch")
NodesOf(cs) == [i \in 1..Len(cs) |-> cs[i].node_name]
ResultsOf(cs) ==
    LET rs == SelectSeq(cs, LAMBDA c : c.kind = "result")
    IN [i \in 1..Len(rs) |->
          RepathedReference(rs[i].node_name, rs[i].previous_path, rs[i].new_path)]
Substituted(c) == c.err \in {"none", "notfound", "reload"}
LastCall == calls'[Len(calls')]
CallMade == Len(calls') = Len(calls) + 1
\* calls i and j are two successive runs on the same reference
Successive(i, j) ==
    /\ i < j
    /\ calls[i].node_name = calls[j].node_name
    /\ \A k \in (i + 1)..(j - 1) : calls[k].node_name # calls[i].node_name

\* C1: open_and_repath_references never lets an error out, whatever the host
\* raised on the open and whatever repath_reference raised: it is always
\* either on its way through the references (a bounded loop) or back at its
\* caller with a list.
C1_AlwaysReturns ==
    /\ pc \in {"call", "opened", "loop", "done"}
    /\ pc = "loop" => index \in 1..(Len(scene_reference_list) + 1)
    /\ pc = "done" => ret.kind = "list"
    /\ pc # "done" => ret = Pending

C1_Witness ==
    /\ pc = "done"
    /\ opens = <<TRUE>>
    /\ Len(BatchCalls) = 2
    /\ \A i \in 1..2 : BatchCalls[i].kind = "raised"
    /\ ret = [kind |-> "list", value |-> <<>>]

\* C2: every path the host was told to reload, and every new path of a
\* result object, was found on disk by the existence check.
C2_OnlyExistingPaths ==
    /\ \A i \in 1..Len(reloads) : reloads[i].path \in present /\ reloads[i].path \notin absent
    /\ \A i \in 1..Len(calls) :
         calls[i].kind = "result" => calls[i].new_path \in present
    /\ \A i \in 1..Len(repathed_reference_list) :
         repathed_reference_list[i].new_path \in present
    /\ \A i \in 1..Len(ret.value) : ret.value[i].new_path \in present

C2_Witness ==
    /\ pc = "done"
    /\ Len(reloads) >= 1
    /\ Len(ret.value) >= 1
    /\ \E i \in 1..Len(calls) : calls[i].err = "notfound"

\* C3: when the batch has returned, every enumerated reference was handed to
\* the repather, the returned list holds the results of the changed
\* references in enumeration order, and a reference whose repathing raised
\* has no entry in it.
C3_FailuresSkipped ==
    pc = "done" =>
      /\ NodesOf(BatchCalls) = scene_reference_list
      /\ ret.value = ResultsOf(BatchCalls)
      /\ \A i \in 1..Len(BatchCalls) :
           BatchCalls[i].kind = "raised" =>
             \A k \in 1..Len(ret.value) : ret.value[k].node_name # BatchCalls[i].node_name

C3_Witness ==
    /\ pc = "done"
    /\ Len(BatchCalls) = 2
    /\ BatchCalls[1].err \in {"notfound", "mismatch"}
    /\ BatchCalls[2].kind = "result"
    /\ Len(ret.value) = 1

\* C4 as stated: a reference whose substituted path equals its current path
\* always gets the no-op signal.
C4_Original ==
    \A i \in 1..Len(calls) :
      (Substituted(calls[i]) /\ calls[i].new_path = calls[i].previous_path)
        => calls[i].kind = "none"

\* C4 amended: a call whose substituted path equals the current path issues
\* no reload, changes nothing in the host scene and adds nothing to the batch
\* list; it gives the no-op signal when that path exists on disk (and raises
\* the not-found error when it does not).
C4_NoChange ==
    [][(CallMade /\ Substituted(LastCall) /\ LastCall.new_path = LastCall.previous_path)
        => /\ ~LastCall.reload
           /\ reloads' = reloads
           /\ scene' = scene
           /\ repathed_reference_list' = repathed_reference_list
           /\ LastCall.kind = (IF LastCall.new_path \in present' THEN "none" ELSE "raised")
           /\ LastCall.kind = "raised" => LastCall.err = "notfound"]_vars

C4_Witness ==
    /\ pc = "done"
    /\ \E i \in 1..Len(BatchCalls) :
         /\ BatchCalls[i].kind = "none"
         /\ BatchCalls[i].new_path = BatchCalls[i].previous_path
    /\ reloads = <<>>
    /\ ret.value = <<>>

\* C5 as stated: after a run that returned a result and whose reload the host
\* applied without error, the next run on the same reference with the same
\* rule issues no reload and returns no result.
C5_Original ==
    \A i, j \in 1..Len(calls) :
      (Successive(i, j) /\ calls[i].kind = "result" /\ calls[i].applied
         /\ ~calls[i].raisedReload)
        => ~calls[j].reload /\ calls[j].kind # "result"

\* C5 amended: after a run that returned a result and whose reload the host
\* applied, the next run on the same reference with the same rule starts from
\* the first run's new path, never reloads that path again, and gives the
\* no-op signal whenever the rule maps that path to itself.
C5_SecondRun ==
    \A i, j \in 1..Len(calls) :
      (Successive(i, j) /\ calls[i].kind = "result" /\ calls[i].applied)
        => /\ calls[j].err \notin {"query", "nopath"}
           /\ calls[j].previous_path = calls[i].new_path
           /\ ~(calls[j].reload /\ calls[j].reload_path = calls[i].new_path)
           /\ (Substituted(calls[j]) /\ calls[j].new_path = calls[i].new_path)
                => calls[j].kind = "none"

C5_Witness ==
    \E i, j \in 1..Len(calls) :
      /\ Successive(i, j)
      /\ calls[i].kind = "result" /\ calls[i].applied
      /\ calls[j].kind = "none"
      /\ calls[j].new_path = calls[i].new_path

\* C6: the new path is the replacement followed by the part of the current
\* path after the match at its start.
C6_PrefixOnly ==
    \A i \in 1..Len(calls) :
      Substituted(calls[i]) =>
        calls[i].new_path =
          Path(replace \o SubSeq(calls[i].previous_path, Len(search) + 1,
                                 Len(calls[i].previous_path)))

\* C7: a reload on which the host raised still ends in a result object with
\* the previous and the new path, which the batch records.
C7_ReloadErrorTolerated ==
    /\ \A i \in 1..Len(calls) :
         (calls[i].reload /\ calls[i].raisedReload) =>
           /\ calls[i].kind = "result"
           /\ calls[i].new_path # calls[i].previous_path
           /\ calls[i].reload_path = calls[i].new_path
    /\ pc = "done" =>
         \A i \in 1..Len(BatchCalls) :
           (BatchCalls[i].reload /\ BatchCalls[i].raisedReload) =>
             \E k \in 1..Len(ret.value) :
               ret.value[k] = RepathedReference(BatchCalls[i].node_name,
                                                BatchCalls[i].previous_path,
                                                BatchCalls[i].new_path)

C7_Witness ==
    /\ pc = "done"
    /\ Len(BatchCalls) >= 1
    /\ BatchCalls[1].reload /\ BatchCalls[1].raisedReload
    /\ Len(ret.value) >= 1
    /\ ret.value[1].node_name = BatchCalls[1].node_name

\* C8: the enumerated list is the host's listing without the host's
\* pseudo-nodes, and nothing else is left out.
C8_ExactlyGenuine ==
    pc \in {"loop", "done"} =>
      scene_reference_list =
        SelectSeq(ListReferences(scene), LAMBDA n : ~IsPseudoNode(n))

\* C9: one open per batch; the references are handed to the repather one by
\* one in enumeration order, each once; the host gets at most one reload per
\* reference; a scene without references ends with an empty list and no call.
C9_ExactlyOnce ==
    /\ Len(opens) = (IF pc = "call" THEN 0 ELSE 1)
    /\ Len(BatchCalls) <= Len(scene_reference_list)
    /\ NodesOf(BatchCalls) = SubSeq(scene_reference_list, 1, Len(BatchCalls))
    /\ pc = "loop" => Len(BatchCalls) = index - 1
    /\ pc = "done" => Len(BatchCalls) = Len(scene_reference_list)
    /\ direct = 0 =>
         /\ calls = BatchCalls
         /\ \A i, j \in 1..Len(reloads) : reloads[i].node = reloads[j].node => i = j
         /\ Len(reloads) = Cardinality({i \in 1..Len(calls) : calls[i].reload})
    /\ (pc = "done" /\ scene_reference_list = <<>>) =>
         ret.value = <<>> /\ calls = <<>> /\ reloads = <<>>

C9_Witness ==
    /\ pc = "done"
    /\ direct = 0
    /\ Len(BatchCalls) = 2
    /\ BatchCalls[1].kind = "raised"
    /\ Len(reloads) = 1

\* C10: a call of repath_reference that ends by raising has issued no reload
\* and leaves the path of every reference in the host scene as it was.
C10_RaiseLeavesSceneAlone ==
    [][(CallMade /\ LastCall.kind = "raised")
        => /\ reloads' = reloads
           /\ scene' = scene
           /\ ~LastCall.reload]_vars

C10_Witness ==
    /\ \E i \in 1..Len(calls) : calls[i].err = "notfound"
    /\ \E i \in 1..Len(calls) : calls[i].err = "mismatch"
    /\ reloads = <<>>

====
